---- MODULE Spec2Model ----
(***************************************************************************)
(* Model of src/mtg_card_creator.py: the batch driver main(), the          *)
(* MTGCardCreator workflow object it drives, the text layout done in       *)
(* enter_card_title_and_other_fields, and the reading of the sheet in      *)
(* generate_and_upload_images.                                             *)
(*                                                                         *)
(* A text is a sequence of one-character strings (a key such as ENTER or a *)
(* literal such as the user name is one token).  The browser is the        *)
(* environment: every WebDriver call may succeed or raise, chosen          *)
(* nondeterministically; log is the sequence of calls issued so far.       *)
(***************************************************************************)
EXTENDS Integers, Sequences, FiniteSets, TLC

VARIABLES pc, cards, idx, image_path, card_title, other_text_fields,
          is_logged_in, drivers, log, exc, logins, values, rows_done

vars == <<pc, cards, idx, image_path, card_title, other_text_fields,
          is_logged_in, drivers, log, exc, logins, values, rows_done>>

\* ------------------------------------------------------------ bounds

\* Longest batch main() is given.
MaxCards == 2
\* Number of login() calls the session client makes.
MaxLoginCalls == 3
\* Number of tokens (words and spaces) a generated text is built from.
MaxTokens == 4
\* Number of rows a sheet has in the slice that is read.
MaxRows == 2

\* ------------------------------------------------- program constants

\* The slice width of the five ability fields.
AbilityWidth == 45
\* The slice width of oracle and flavor text.
PlainWidth == 40
\* The rows of the sheet that are read: values[315:375].
FirstRow == 315
LastRow == 375
\* The number of columns a row must have to be looked at.
MinColumns == 10

SP == " "
NL == "\n"

Min(a, b) == IF a < b THEN a ELSE b

\* ------------------------------------------------------- text layout

\* Mutant of chunks: slices one character too long.
chunks_overlong(text, w) ==
    [k \in 1..((Len(text) + w) \div (w + 1)) |->
        SubSeq(text, (k - 1) * (w + 1) + 1, Min(k * (w + 1), Len(text)))]

\* [text[i:i+w] for i in range(0, len(text), w)]
chunks(text, w) ==
    [k \in 1..((Len(text) + w - 1) \div w) |->
        SubSeq(text, (k - 1) * w + 1, Min(k * w, Len(text)))]

RECURSIVE find_from(_, _, _)
find_from(s, c, k) ==
    IF k > Len(s) THEN -1
    ELSE IF s[k] = c THEN k - 1
    ELSE find_from(s, c, k + 1)

\* str.find: the lowest 0-based index of c in s, or -1.
find(s, c) == find_from(s, c, 1)

\* Mutant of split_chunk: the second line keeps the space.
split_chunk_keeps_space(chunk) ==
    LET split_index == find(chunk, SP)
    IN  IF split_index # -1
        THEN << SubSeq(chunk, 1, split_index),
                SubSeq(chunk, split_index + 1, Len(chunk)) >>
        ELSE << chunk >>

\* The body of `for chunk in chunks:` - the lines one chunk contributes.
split_chunk(chunk) ==
    LET split_index == find(chunk, SP)
    IN  IF split_index # -1
        THEN << SubSeq(chunk, 1, split_index),
                SubSeq(chunk, split_index + 2, Len(chunk)) >>
        ELSE << chunk >>

RECURSIVE formatted_chunks(_)
formatted_chunks(cs) ==
    IF cs = << >> THEN << >>
    ELSE split_chunk(Head(cs)) \o formatted_chunks(Tail(cs))

\* sep.join(parts)
RECURSIVE join(_, _)
join(sep, parts) ==
    IF parts = << >> THEN << >>
    ELSE IF Len(parts) = 1 THEN parts[1]
    ELSE parts[1] \o sep \o join(sep, Tail(parts))

\* Mutant of ability_lines: the slices are not split at a space.
ability_lines_unsplit(text) == chunks(text, AbilityWidth)

\* The lines of one ability field (static, triggered 1-4).
ability_lines(text) == formatted_chunks(chunks(text, AbilityWidth))

\* Mutant of plain_lines: the 40-character slices are split at a space
\* as the ability slices are.
plain_lines_wrapped(text) == formatted_chunks(chunks(text, PlainWidth))

\* The lines of oracle or flavor text.
plain_lines(text) == chunks(text, PlainWidth)

AbilityKeys == << "static_abilities", "triggered_abilities_1",
                 "triggered_abilities_2", "triggered_abilities_3",
                 "triggered_abilities_4" >>

\* `if key in fields: text = fields[key]; if text:`
present(fields, key) == key \in DOMAIN fields /\ fields[key] # << >>

RECURSIVE ability_blocks(_, _)
ability_blocks(fields, k) ==
    IF k > Len(AbilityKeys) THEN << >>
    ELSE (IF present(fields, AbilityKeys[k])
          THEN << join(<<NL>>, ability_lines(fields[AbilityKeys[k]])) >>
          ELSE << >>) \o ability_blocks(fields, k + 1)

\* Mutant of ability_texts: the oracle block is put before the ability
\* blocks.
ability_texts_oracle_first(fields) ==
    (IF present(fields, "oracle")
     THEN << join(<<NL>>, plain_lines(fields["oracle"])) >>
     ELSE << >>)
    \o ability_blocks(fields, 1)
    \o (IF present(fields, "flavor")
        THEN << <<NL>>, join(<<NL>>, plain_lines(fields["flavor"])) >>
        ELSE << >>)

\* The list ability_texts at line 304.
ability_texts(fields) ==
    ability_blocks(fields, 1)
    \o (IF present(fields, "oracle")
        THEN << join(<<NL>>, plain_lines(fields["oracle"])) >>
        ELSE << >>)
    \o (IF present(fields, "flavor")
        THEN << <<NL>>, join(<<NL>>, plain_lines(fields["flavor"])) >>
        ELSE << >>)

combined_text(fields) == join(<<NL>>, ability_texts(fields))

\* ------------------------------------------------------ browser calls

\* One WebDriver call: what is done (op) to which element (target) with
\* which text; rec is the 1-based record it was issued for (0: login) and
\* ok whether it returned normally.
Call(op, target, text) ==
    [op |-> op, target |-> target, text |-> text, rec |-> 0, ok |-> TRUE]

\* The exception a failing call raises.
raised_by(op) ==
    CASE op = "get"       -> "WebDriverException"
      [] op = "find"      -> "NoSuchElementException"
      [] op = "wait"      -> "TimeoutException"
      [] op = "click"     -> "ElementClickInterceptedException"
      [] op = "send_keys" -> "ElementNotInteractableException"
      [] op = "clear"     -> "InvalidElementStateException"
      [] op = "script"    -> "JavascriptException"
      [] op = "select"    -> "NoSuchElementException"

\* The calls of a straight-line handler issued for record r when call number
\* f raises (f = 0: none does): the calls before f, then the failing one.
issued(calls, f, r) ==
    [k \in 1..(IF f = 0 THEN Len(calls) ELSE f) |->
        [calls[k] EXCEPT !.ok = (k # f), !.rec = r]]

\* The exception that leaves the handler, "none" when it returns.
raised(calls, f) == IF f = 0 THEN "none" ELSE raised_by(calls[f].op)

USERNAME == << "mckonkie_sloughswater" >>
PASSWORD == << "grand2024" >>
ENTER == << "Keys.ENTER" >>

\* login(), lines 110-121: the calls made when not yet logged in.
login_calls ==
    << Call("get", "login_page", << >>),
       Call("find", "username", << >>),
       Call("send_keys", "username", USERNAME),
       Call("find", "password", << >>),
       Call("send_keys", "password", PASSWORD),
       Call("wait", "login_submit", << >>),
       Call("click", "login_submit", << >>) >>

\* Mutant of login: no early return when already logged in.
login_without_guard(f) ==
    /\ logins' = logins + 1
    /\ log' = log \o issued(login_calls, f, 0)
    /\ exc' = raised(login_calls, f)
    /\ is_logged_in' = (f = 0)

\* Mutant of login: the flag is set before the calls are made.
login_flag_first(f) ==
    /\ logins' = logins + 1
    /\ IF is_logged_in
       THEN /\ f = 0
            /\ exc' = "none"
            /\ UNCHANGED <<log, is_logged_in>>
       ELSE /\ log' = log \o issued(login_calls, f, 0)
            /\ exc' = raised(login_calls, f)
            /\ is_logged_in' = TRUE

\* login() with call f raising: the early return when already logged in,
\* else the calls, and the flag set only when the last call returned.
login(f) ==
    /\ logins' = logins + 1
    /\ IF is_logged_in
       THEN /\ f = 0
            /\ exc' = "none"
            /\ UNCHANGED <<log, is_logged_in>>
       ELSE /\ log' = log \o issued(login_calls, f, 0)
            /\ exc' = raised(login_calls, f)
            /\ is_logged_in' = (f = 0)

\* navigate_to_page(): get, then the wait for the file input.  o is
\*   "ok"        both return
\*   "get"       driver.get raises
\*   "timeout"   the wait times out, window.stop() is issued and returns
\*   "stop"      the wait times out and window.stop() raises
\*   "wait"      the wait raises something other than TimeoutException
NavigateOutcomes == {"ok", "get", "timeout", "stop", "wait"}

\* Mutant of navigate_to_page: the timeout of the wait is not caught.
navigate_to_page_strict(o, r) ==
    LET get  == [Call("get", "card_maker", << >>) EXCEPT !.rec = r]
        wait == [Call("wait", "file_input", << >>) EXCEPT !.rec = r]
        bad(c) == [c EXCEPT !.ok = FALSE]
    IN  CASE o = "ok"      -> [events |-> <<get, wait>>, exc |-> "none"]
          [] o = "get"     -> [events |-> <<bad(get)>>,
                               exc |-> "WebDriverException"]
          [] o = "timeout" -> [events |-> <<get, bad(wait)>>,
                               exc |-> "TimeoutException"]
          [] o = "stop"    -> [events |-> <<get, bad(wait)>>,
                               exc |-> "TimeoutException"]
          [] o = "wait"    -> [events |-> <<get, bad(wait)>>,
                               exc |-> "WebDriverException"]

navigate_to_page(o, r) ==
    LET get  == [Call("get", "card_maker", << >>) EXCEPT !.rec = r]
        wait == [Call("wait", "file_input", << >>) EXCEPT !.rec = r]
        stop == [Call("script", "window.stop", << >>) EXCEPT !.rec = r]
        bad(c) == [c EXCEPT !.ok = FALSE]
    IN  CASE o = "ok"      -> [events |-> <<get, wait>>, exc |-> "none"]
          [] o = "get"     -> [events |-> <<bad(get)>>,
                               exc |-> "WebDriverException"]
          [] o = "timeout" -> [events |-> <<get, bad(wait), stop>>,
                               exc |-> "none"]
          [] o = "stop"    -> [events |-> <<get, bad(wait), bad(stop)>>,
                               exc |-> "JavascriptException"]
          [] o = "wait"    -> [events |-> <<get, bad(wait)>>,
                               exc |-> "WebDriverException"]

\* upload_image_and_confirm()
upload_calls(path) ==
    << Call("find", "file_input", << >>),
       Call("send_keys", "file_input", path),
       Call("wait", "confirm", << >>),
       Call("click", "confirm", << >>) >>

\* finalize_card_creation()
finalize_calls ==
    << Call("wait", "next", << >>),
       Call("click", "next", << >>) >>

\* wait_and_send_keys(selector, text)
wait_and_send_keys(target, text) ==
    << Call("wait", target, << >>),
       Call("clear", target, << >>),
       Call("send_keys", target, text) >>

\* select_custom_dropdown_option('s2id_autogen1', option_text)
select_custom_dropdown_option(option_text) ==
    << Call("find", "select2-chosen-2", << >>),
       Call("click", "select2-chosen-2", << >>),
       Call("find", "s2id_autogen1", << >>),
       Call("script", "s2id_autogen1", << >>),
       Call("wait", "type_search", << >>),
       Call("send_keys", "type_search", option_text),
       Call("send_keys", "type_search", ENTER) >>

\* select_dropdown_option_by_value("rarity", value), whose try block
\* catches every exception.
select_dropdown_option_by_value(value) ==
    << Call("wait", "rarity", << >>),
       Call("select", "rarity", value) >>

\* enter_card_title_and_other_fields() up to the description fill: every
\* one of these calls propagates what it raises.
enter_calls(title, fields) ==
    wait_and_send_keys("title", title)
    \o (IF "mana_value" \in DOMAIN fields
        THEN wait_and_send_keys("mana", fields["mana_value"]) ELSE << >>)
    \o (IF "card_type" \in DOMAIN fields
        THEN select_custom_dropdown_option(fields["card_type"]) ELSE << >>)
    \o wait_and_send_keys("description", combined_text(fields))

\* enter_card_title_and_other_fields() with call f raising and, when it
\* gets to the rarity selection, call g of that failing and being caught.
enter_card_title_and_other_fields(title, fields, f, g, r) ==
    LET calls == enter_calls(title, fields)
        rarity == IF f = 0 /\ "rarity" \in DOMAIN fields
                  THEN issued(select_dropdown_option_by_value(fields["rarity"]),
                              g, r)
                  ELSE << >>
    IN  [events |-> issued(calls, f, r) \o rarity, exc |-> raised(calls, f)]

\* robust_click(selector, by): wait, scroll into view, click and, when the
\* click is intercepted, a script click.  Neither login() nor any handler
\* of run() calls it.
robust_click(target, intercepted) ==
    << Call("wait", target, << >>),
       Call("script", "scrollIntoView", << >>),
       [Call("click", target, << >>) EXCEPT !.ok = ~intercepted] >>
    \o (IF intercepted THEN << Call("script", target, << >>) >> ELSE << >>)

\* preview_card()
preview_calls ==
    << Call("wait", "preview", << >>),
       Call("click", "preview", << >>),
       Call("wait", "publish", << >>),
       Call("click", "publish", << >>) >>


\* ------------------------------------------------------------- inputs

\* other_text_fields as generate_and_upload_images builds it: all twelve
\* keys, each a (possibly empty) text.
card_fields(card_type, mana, static, triggered, rarity, flavor) ==
    [card_type |-> card_type, subtype |-> << >>, mana_value |-> mana,
     power |-> << >>, toughness |-> << >>, static_abilities |-> static,
     triggered_abilities_1 |-> triggered, triggered_abilities_2 |-> << >>,
     triggered_abilities_3 |-> << >>, triggered_abilities_4 |-> << >>,
     rarity |-> rarity, flavor |-> flavor]

card_info(path, title, fields) ==
    [image_path |-> path, card_title |-> title, other_text_fields |-> fields]

CardA ==
    card_info(<<"1", ".", "j", "p", "g">>, <<"A">>,
              card_fields(<<"C">>, <<"2">>, <<"a", SP, "b", SP, "c">>,
                          <<"d", SP, "e">>, <<"r">>, <<"f", SP, "g">>))

CardB ==
    card_info(<<"2", ".", "j", "p", "g">>, <<"B">>,
              card_fields(<<"L">>, << >>, << >>, << >>, <<"u">>, << >>))

SampleCards == { CardA, CardB }

\* A batch of n cards, alternately CardA and CardB.
Batch(first, n) ==
    [k \in 1..n |-> IF (first + k) % 2 = 1 THEN CardA ELSE CardB]

\* created_cards_info: what generate_and_upload_images returned.
Batches == { Batch(first, n) : first \in 0..1, n \in 0..MaxCards }

RECURSIVE SeqsUpTo(_, _)
SeqsUpTo(S, n) ==
    IF n = 0 THEN { << >> }
    ELSE LET shorter == SeqsUpTo(S, n - 1)
         IN  shorter \cup { Append(q, x) : q \in shorter, x \in S }

\* A word of n letters.
Word(n) == [j \in 1..n |-> IF j % 2 = 1 THEN "a" ELSE "b"]

\* What the generated texts are built from: a space, and words that fill a
\* slice (40, 45), fall one short of it (44) or are short.
Tokens == { <<SP>>, Word(1), Word(4), Word(40), Word(44) }

RECURSIVE flatten(_)
flatten(parts) ==
    IF parts = << >> THEN << >> ELSE Head(parts) \o flatten(Tail(parts))

\* The text t with every letter replaced by one of its own (the number of
\* its position), so that the letters of a text are told apart.
distinct_letters(t) ==
    [p \in DOMAIN t |-> IF t[p] = SP THEN SP ELSE ToString(p)]

Texts == { distinct_letters(flatten(q)) : q \in SeqsUpTo(Tokens, MaxTokens) }

\* "Destroy target creature. It can't be regenerated."
ExampleText ==
    << "D", "e", "s", "t", "r", "o", "y", SP,
       "t", "a", "r", "g", "e", "t", SP,
       "c", "r", "e", "a", "t", "u", "r", "e", ".", SP,
       "I", "t", SP,
       "c", "a", "n", "'", "t", SP,
       "b", "e", SP,
       "r", "e", "g", "e", "n", "e", "r", "a", "t", "e", "d", "." >>

\* The seven keys whose text goes into the description, in the order the
\* code reads them.
FieldOrder == AbilityKeys \o << "oracle", "flavor" >>

\* A short text of its own for each of these keys.
short_text(key) ==
    CASE key = "static_abilities"      -> << "S", SP, "s" >>
      [] key = "triggered_abilities_1" -> << "T", "1" >>
      [] key = "triggered_abilities_2" -> << "T", "2" >>
      [] key = "triggered_abilities_3" -> << "T", "3" >>
      [] key = "triggered_abilities_4" -> << "T", "4" >>
      [] key = "oracle"                -> << "O", SP, "o" >>
      [] key = "flavor"                -> << "F", SP, "f" >>

\* Every mapping in which each of the seven keys is absent, empty or holds
\* its short text.
MixedFields ==
    UNION { { [key \in keys |-> IF key \in filled THEN short_text(key) ELSE << >>]
              : filled \in SUBSET keys }
            : keys \in SUBSET { FieldOrder[k] : k \in DOMAIN FieldOrder } }

\* The keys a generated text is filed under, one per layout variant.
LayoutKeys == {"static_abilities", "triggered_abilities_2", "oracle", "flavor"}

\* The mappings MTGCardCreator is constructed with in the layout runs.
LayoutFields ==
    { [k \in {key} |-> t] : key \in LayoutKeys, t \in Texts }
    \cup { [k \in {"static_abilities"} |-> ExampleText] }
    \cup MixedFields

\* -------------------------------------------------------------- main()

\* main() holds created_cards_info (line 406) and has built nothing yet.
Init ==
    /\ pc = "main"
    /\ cards \in Batches
    /\ idx = 0
    /\ image_path = << >>
    /\ card_title = << >>
    /\ other_text_fields = << >>
    /\ is_logged_in = FALSE
    /\ drivers = 0
    /\ log = << >>
    /\ exc = "none"
    /\ logins = 0
    /\ values = << >>
    /\ rows_done = 0

\* Lines 409-414: return when there is no card, else construct the one
\* MTGCardCreator from the first card; init_driver may raise.
main_create ==
    /\ pc = "main"
    /\ IF cards = << >>
       THEN /\ pc' = "done"
            /\ UNCHANGED <<image_path, card_title, other_text_fields,
                           drivers, exc>>
       ELSE \E started \in BOOLEAN :
            IF started
            THEN /\ image_path' = cards[1].image_path
                 /\ card_title' = cards[1].card_title
                 /\ other_text_fields' = cards[1].other_text_fields
                 /\ drivers' = drivers + 1
                 /\ pc' = "login"
                 /\ UNCHANGED exc
            ELSE /\ exc' = "WebDriverException"
                 /\ pc' = "aborted"
                 /\ UNCHANGED <<image_path, card_title, other_text_fields,
                                drivers>>
    /\ UNCHANGED <<values, rows_done>>
    /\ UNCHANGED <<cards, idx, is_logged_in, log, logins>>

\* Mutant of main_login: what login() raises is caught and the loop runs.
main_login_swallows ==
    /\ pc = "login"
    /\ \E f \in 0..Len(login_calls) : login(f)
    /\ pc' = "loop"
    /\ UNCHANGED <<values, rows_done>>
    /\ UNCHANGED <<cards, idx, image_path, card_title, other_text_fields,
                   drivers>>

\* Line 415: the one login() call; what it raises leaves main().
main_login ==
    /\ pc = "login"
    /\ \E f \in 0..Len(login_calls) : login(f)
    /\ pc' = IF exc' = "none" THEN "loop" ELSE "aborted"
    /\ UNCHANGED <<values, rows_done>>
    /\ UNCHANGED <<cards, idx, image_path, card_title, other_text_fields,
                   drivers>>

\* Mutant of main_next_card: the title and fields of the instance are not
\* replaced.
main_next_card_stale ==
    /\ pc = "loop"
    /\ IF idx < Len(cards)
       THEN /\ idx' = idx + 1
            /\ image_path' = cards[idx + 1].image_path
            /\ pc' = "navigate"
            /\ UNCHANGED <<card_title, other_text_fields>>
       ELSE /\ pc' = "done"
            /\ UNCHANGED <<idx, image_path, card_title, other_text_fields>>
    /\ UNCHANGED <<values, rows_done>>
    /\ UNCHANGED <<cards, is_logged_in, drivers, log, exc, logins>>

\* Mutant of main_next_card: run() is called twice for every card.
main_next_card_twice ==
    /\ pc = "loop"
    /\ IF idx >= 1 /\ Cardinality({ k \in DOMAIN log :
                                      /\ log[k].rec = idx
                                      /\ log[k].target = "card_maker" }) = 1
       THEN /\ pc' = "navigate"
            /\ UNCHANGED <<idx, image_path, card_title, other_text_fields>>
       ELSE IF idx < Len(cards)
       THEN /\ idx' = idx + 1
            /\ image_path' = cards[idx + 1].image_path
            /\ card_title' = cards[idx + 1].card_title
            /\ other_text_fields' = cards[idx + 1].other_text_fields
            /\ pc' = "navigate"
       ELSE /\ pc' = "done"
            /\ UNCHANGED <<idx, image_path, card_title, other_text_fields>>
    /\ UNCHANGED <<values, rows_done>>
    /\ UNCHANGED <<cards, is_logged_in, drivers, log, exc, logins>>

\* Lines 418-425: the for loop takes the next card, replaces the instance's
\* three fields and calls run(); after the last card main() returns.
main_next_card ==
    /\ pc = "loop"
    /\ IF idx < Len(cards)
       THEN /\ idx' = idx + 1
            /\ image_path' = cards[idx + 1].image_path
            /\ card_title' = cards[idx + 1].card_title
            /\ other_text_fields' = cards[idx + 1].other_text_fields
            /\ pc' = "navigate"
       ELSE /\ pc' = "done"
            /\ UNCHANGED <<idx, image_path, card_title, other_text_fields>>
    /\ UNCHANGED <<values, rows_done>>
    /\ UNCHANGED <<cards, is_logged_in, drivers, log, exc, logins>>

\* One call of run(): the handler's calls are issued, and it either
\* returns, so that run() goes on at `next`, or raises through run() and
\* main(), neither of which has a try block.
run_step(res, next) ==
    /\ log' = log \o res.events
    /\ exc' = res.exc
    /\ pc' = IF res.exc = "none" THEN next ELSE "aborted"
    /\ UNCHANGED <<values, rows_done>>
    /\ UNCHANGED <<cards, idx, image_path, card_title, other_text_fields,
                   is_logged_in, drivers, logins>>

straight(calls, f) == [events |-> issued(calls, f, idx), exc |-> raised(calls, f)]

\* run(), line 389
run_navigate ==
    /\ pc = "navigate"
    /\ \E o \in NavigateOutcomes : run_step(navigate_to_page(o, idx), "upload")

\* run(), line 390
run_upload ==
    /\ pc = "upload"
    /\ \E f \in 0..Len(upload_calls(image_path)) :
          run_step(straight(upload_calls(image_path), f), "finalize")

\* Mutant of run_finalize: run() calls preview_card before the fields are
\* entered.
run_finalize_then_preview ==
    /\ pc = "finalize"
    /\ \E f \in 0..Len(finalize_calls) :
          run_step(straight(finalize_calls, f), "preview")

\* run(), line 391
run_finalize ==
    /\ pc = "finalize"
    /\ \E f \in 0..Len(finalize_calls) :
          run_step(straight(finalize_calls, f), "enter")

\* run(), line 392
run_enter ==
    /\ pc = "enter"
    /\ \E f \in 0..Len(enter_calls(card_title, other_text_fields)),
          g \in 0..Len(select_dropdown_option_by_value(<< >>)) :
          /\ (f # 0 \/ "rarity" \notin DOMAIN other_text_fields) => g = 0
          /\ run_step(enter_card_title_and_other_fields(
                          card_title, other_text_fields, f, g, idx),
                      "preview")

\* run(), line 393; run() then returns to the for loop.
run_preview ==
    /\ pc = "preview"
    /\ \E f \in 0..Len(preview_calls) :
          run_step(straight(preview_calls, f), "loop")

Next ==
    \/ main_create
    \/ main_login
    \/ main_next_card
    \/ run_navigate
    \/ run_upload
    \/ run_finalize
    \/ run_enter
    \/ run_preview

Spec == Init /\ [][Next]_vars

\* ------------------------------------------------ the session's client

\* An MTGCardCreator just constructed (lines 91-96), in the hands of a
\* client that calls login() again and again, whatever the call before did.
InitSession ==
    /\ pc = "client"
    /\ cards \in { <<c>> : c \in SampleCards }
    /\ idx = 0
    /\ image_path = cards[1].image_path
    /\ card_title = cards[1].card_title
    /\ other_text_fields = cards[1].other_text_fields
    /\ is_logged_in = FALSE
    /\ drivers = 1
    /\ log = << >>
    /\ exc = "none"
    /\ logins = 0
    /\ values = << >>
    /\ rows_done = 0

client_login ==
    /\ pc = "client"
    /\ logins < MaxLoginCalls
    /\ \E f \in 0..Len(login_calls) : login(f)
    /\ UNCHANGED <<values, rows_done>>
    /\ UNCHANGED <<pc, cards, idx, image_path, card_title,
                   other_text_fields, drivers>>

SpecSession == InitSession /\ [][client_login]_vars

\* --------------------------------------------------- the layout runs

\* An MTGCardCreator constructed with some text fields, logged in, whose
\* run() has navigated, uploaded and clicked Next and is at line 392.
InitLayout ==
    /\ pc = "enter"
    /\ \E fields \in LayoutFields :
          cards = << card_info(<<"1", ".", "j", "p", "g">>, <<"A">>, fields) >>
    /\ idx = 1
    /\ image_path = cards[1].image_path
    /\ card_title = cards[1].card_title
    /\ other_text_fields = cards[1].other_text_fields
    /\ is_logged_in = TRUE
    /\ drivers = 1
    /\ log = issued(login_calls, 0, 0)
             \o navigate_to_page("ok", 1).events
             \o issued(upload_calls(cards[1].image_path), 0, 1)
             \o issued(finalize_calls, 0, 1)
    /\ exc = "none"
    /\ logins = 1
    /\ values = << >>
    /\ rows_done = 0

SpecLayout == InitLayout /\ [][run_enter]_vars

\* ------------------------------------- generate_and_upload_images()

\* values[FirstRow:LastRow], line 45, Python's half-open slice.
slice(seq, from, to) == SubSeq(seq, from + 1, Min(to, Len(seq)))

\* row[j] of Python's 0-based indexing.
column(row, j) == row[j + 1]

\* The columns the twelve fields are read from, lines 67-80.
FieldColumns ==
    [card_type |-> 3, subtype |-> 5, mana_value |-> 10, power |-> 11,
     toughness |-> 12, static_abilities |-> 13,
     triggered_abilities_1 |-> 14, triggered_abilities_2 |-> 15,
     triggered_abilities_3 |-> 16, triggered_abilities_4 |-> 17,
     rarity |-> 18, flavor |-> 20]

\* f'./images/{filename}.jpg'
image_file(filename) == << "./images/" >> \o filename \o << ".jpg" >>

\* The dict literal of lines 64-81; a column the row does not have raises
\* IndexError.
row_has_columns(row) ==
    \A key \in DOMAIN FieldColumns : FieldColumns[key] < Len(row)

row_card_info(row) ==
    [image_path |-> image_file(column(row, 1)),
     card_title |-> column(row, 1),
     other_text_fields |->
        [key \in DOMAIN FieldColumns |-> column(row, FieldColumns[key])]]

\* `if len(row) >= 10 and row[2] is not None and row[2] != "":`
row_accepted(row) == Len(row) >= MinColumns /\ column(row, 2) # << >>

\* What can happen in the try block for one row:
\*   "ok"        the image is generated, fetched, written and uploaded
\*   "not_200"   the image is generated but its download is refused
\*   "generate"  client.images.generate raises
\*   "create"    the upload to the drive folder raises
RowOutcomes == {"ok", "not_200", "generate", "create"}

\* Lines 47-84 for one accepted row, sheet row r: the calls made, the
\* exception the except clause catches ("none": the record is appended).
process_row(row, o, r) ==
    LET file == image_file(column(row, 1))
        at(c) == [c EXCEPT !.rec = r]
        bad(c) == [c EXCEPT !.ok = FALSE, !.rec = r]
        generate == Call("images.generate", "dall-e-3", column(row, 2))
        fetch(status) == Call("requests.get", "image_url", << status >>)
        write == Call("write", "image_file", file)
        create == Call("files.create", "drive_folder", file)
        index_error == IF row_has_columns(row) THEN "none" ELSE "IndexError"
    IN  CASE o = "generate" ->
                [events |-> << bad(generate) >>, exc |-> "OpenAIError"]
          [] o = "not_200" ->
                [events |-> << at(generate), at(fetch("404")) >>,
                 exc |-> index_error]
          [] o = "create" ->
                [events |-> << at(generate), at(fetch("200")), at(write),
                               bad(create) >>,
                 exc |-> "HttpError"]
          [] o = "ok" ->
                [events |-> << at(generate), at(fetch("200")), at(write),
                               at(create) >>,
                 exc |-> index_error]

\* A sheet row of n columns with the given file name and prompt; every
\* other cell holds the number of its column.
Row(filename, n, prompt) ==
    [j \in 1..n |-> IF j = 2 THEN filename
                    ELSE IF j = 3 THEN prompt
                    ELSE << ToString(j - 1) >>]

\* The rows the sheets are made of: two full rows, rows that end at column
\* 19 and 9, a row of nine columns and a full row without a prompt.
RowKinds ==
    { Row(<<"A">>, 21, <<"p">>), Row(<<"B">>, 21, <<"p">>),
      Row(<<"C">>, 20, <<"p">>), Row(<<"D">>, 10, <<"p">>),
      Row(<<"E">>, 9, <<"p">>), Row(<<"F">>, 21, << >>) }

\* The rows of the sheet above the slice.
RowsAbove == [k \in 1..FirstRow |-> Row(<<"H">>, 21, <<"p">>)]

\* result.get('values', []): no sheet, a sheet that ends above the slice,
\* and sheets with up to MaxRows rows in the slice.
Sheets ==
    { << >>, << Row(<<"A">>, 21, <<"p">>), Row(<<"B">>, 21, <<"p">>) >> }
    \cup { RowsAbove \o rows : rows \in SeqsUpTo(RowKinds, MaxRows) }

\* generate_and_upload_images() is called: nothing is fetched yet.
InitIngest ==
    /\ pc = "fetch"
    /\ values = << >>
    /\ rows_done = 0
    /\ cards = << >>
    /\ idx = 0
    /\ image_path = << >>
    /\ card_title = << >>
    /\ other_text_fields = << >>
    /\ is_logged_in = FALSE
    /\ drivers = 0
    /\ log = << >>
    /\ exc = "none"
    /\ logins = 0

\* Lines 41-43: the sheet is fetched; execute() may raise, with no try
\* block around it.
ingest_fetch ==
    /\ pc = "fetch"
    /\ \/ /\ values' \in Sheets
          /\ pc' = "ingest"
          /\ UNCHANGED exc
       \/ /\ exc' = "HttpError"
          /\ pc' = "aborted"
          /\ UNCHANGED values
    /\ UNCHANGED <<rows_done, cards, idx, image_path, card_title,
                   other_text_fields, is_logged_in, drivers, log, logins>>

\* Mutant of ingest_row: an exception in a row ends the loop.
ingest_row_stops ==
    /\ pc = "ingest"
    /\ rows_done < Len(slice(values, FirstRow, LastRow))
    /\ LET row == slice(values, FirstRow, LastRow)[rows_done + 1]
       IN  IF row_accepted(row)
           THEN \E o \in RowOutcomes :
                   LET res == process_row(row, o, FirstRow + rows_done + 1)
                   IN  /\ log' = log \o res.events
                       /\ cards' = IF res.exc = "none"
                                   THEN Append(cards, row_card_info(row))
                                   ELSE cards
                       /\ rows_done' =
                             IF res.exc = "none" THEN rows_done + 1
                             ELSE Len(slice(values, FirstRow, LastRow))
           ELSE /\ rows_done' = rows_done + 1
                /\ UNCHANGED <<log, cards>>
    /\ UNCHANGED <<pc, values, idx, image_path, card_title, other_text_fields,
                   is_logged_in, drivers, exc, logins>>

\* One pass of the for loop, lines 45-84: a row that is not accepted is
\* passed over; an accepted one is processed, its record appended unless
\* an exception is caught, which is printed and dropped.
ingest_row ==
    /\ pc = "ingest"
    /\ rows_done < Len(slice(values, FirstRow, LastRow))
    /\ LET row == slice(values, FirstRow, LastRow)[rows_done + 1]
       IN  IF row_accepted(row)
           THEN \E o \in RowOutcomes :
                   LET res == process_row(row, o, FirstRow + rows_done + 1)
                   IN  /\ log' = log \o res.events
                       /\ cards' = IF res.exc = "none"
                                   THEN Append(cards, row_card_info(row))
                                   ELSE cards
           ELSE UNCHANGED <<log, cards>>
    /\ rows_done' = rows_done + 1
    /\ UNCHANGED <<pc, values, idx, image_path, card_title, other_text_fields,
                   is_logged_in, drivers, exc, logins>>

\* Line 86: return created_cards_info.
ingest_return ==
    /\ pc = "ingest"
    /\ rows_done = Len(slice(values, FirstRow, LastRow))
    /\ pc' = "ingested"
    /\ UNCHANGED <<values, rows_done, cards, idx, image_path, card_title,
                   other_text_fields, is_logged_in, drivers, log, exc, logins>>

SpecIngest ==
    InitIngest /\ [][ingest_fetch \/ ingest_row \/ ingest_return]_vars

\* ------------------------------------------------------------- claims

Terminated == pc \in {"done", "aborted"}

\* Some call was issued for record r: its workflow was started.
Started(r) == \E k \in DOMAIN log : log[k].rec = r

\* The call at position k of the log is (op, target) and returned.
Did(k, op, target) ==
    log[k].op = op /\ log[k].target = target /\ log[k].ok

Published(r) ==
    \E k \in DOMAIN log : log[k].rec = r /\ Did(k, "click", "publish")

\* C1: batch isolation - a record's workflow that raises never ends the
\* run: the error is caught by the driver, and when the run is over the
\* workflow of every record of the batch has been started.
C1_BatchIsolation ==
    /\ is_logged_in => pc # "aborted"
    /\ (Terminated /\ is_logged_in) => \A r \in 1..Len(cards) : Started(r)

\* The step of the workflow a call belongs to: 1 navigate, 2 inject the
\* image file, 3 asset-confirm, 4 Next, 5 title/mana/type, 6 description,
\* 7 rarity, 8 Preview, 9 Publish.
StepOf(e) ==
    CASE e.target \in {"card_maker", "window.stop"} -> 1
      [] e.target = "file_input" -> (IF e.op = "wait" THEN 1 ELSE 2)
      [] e.target = "confirm" -> 3
      [] e.target = "next" -> 4
      [] e.target \in {"title", "mana", "select2-chosen-2", "s2id_autogen1",
                       "type_search"} -> 5
      [] e.target = "description" -> 6
      [] e.target = "rarity" -> 7
      [] e.target = "preview" -> 8
      [] e.target = "publish" -> 9
      [] OTHER -> 0

\* Step j of record r completed without raising among the first k calls.
Completed(j, r, k) ==
    LET done(op, target) ==
            \E p \in 1..k : log[p].rec = r /\ Did(p, op, target)
        fields == cards[r].other_text_fields
    IN  CASE j = 1 -> done("wait", "file_input") \/ done("script", "window.stop")
          [] j = 2 -> done("send_keys", "file_input")
          [] j = 3 -> done("click", "confirm")
          [] j = 4 -> done("click", "next")
          [] j = 5 -> /\ done("send_keys", "title")
                      /\ "mana_value" \in DOMAIN fields
                            => done("send_keys", "mana")
                      /\ "card_type" \in DOMAIN fields
                            => \E p \in 1..k :
                                  /\ log[p].rec = r
                                  /\ Did(p, "send_keys", "type_search")
                                  /\ log[p].text = ENTER
          [] j = 6 -> done("send_keys", "description")
          [] j = 7 -> "rarity" \in DOMAIN fields
                         => \E p \in 1..k : log[p].rec = r /\ StepOf(log[p]) = 7
          [] j = 8 -> done("click", "preview")

\* C2: strict workflow order - the calls of one record never go back to an
\* earlier step (each call is of the step of the call before it or of a
\* later one), and the first call of a step (the Publish click above all)
\* is issued only after every earlier step of that record completed
\* without raising.
C2_StrictOrder ==
    /\ \A q \in DOMAIN log : log[q].rec >= 1 => StepOf(log[q]) \in 1..9
    /\ \A q \in 2..Len(log) :
          /\ log[q - 1].rec <= log[q].rec
          /\ log[q - 1].rec = log[q].rec
                => StepOf(log[q - 1]) <= StepOf(log[q])
          /\ (log[q].rec >= 1 /\ ( \/ log[q - 1].rec # log[q].rec
                                   \/ StepOf(log[q - 1]) # StepOf(log[q]) ))
                => \A j \in 1..(StepOf(log[q]) - 1) :
                      Completed(j, log[q].rec, q - 1)

\* Two records were published, the second with every step made.
C2_Witness ==
    /\ pc = "done"
    /\ Len(cards) = 2
    /\ Published(1) /\ Published(2)

\* C3: login idempotence - once a login() call has set the flag, every
\* later login() call issues no browser call at all and returns normally,
\* and the flag never goes back to false; a call that returns normally
\* leaves the flag true.
C3_LoginIdempotent ==
    [][ /\ is_logged_in =>
              (is_logged_in' /\ log' = log /\ exc' = "none")
        /\ (logins' = logins + 1 /\ exc' = "none") => is_logged_in'
      ]_vars

\* The first call logged in (its seven calls are all of the log) and the
\* client has called login() twice more since.
C3_Witness ==
    /\ is_logged_in
    /\ logins = 3
    /\ Len(log) = Len(login_calls)

\* C4: a login() call that raises, at the wait for the submit control or
\* at any other call, leaves the flag false; and a login() call made with
\* the flag false is not skipped: it starts the sequence again at the
\* navigation, and when it returns normally it has issued all seven calls.
C4_FailedLoginRetries ==
    [][ /\ (logins' = logins + 1 /\ exc' # "none") => ~is_logged_in'
        /\ (logins' = logins + 1 /\ ~is_logged_in) =>
              /\ Len(log') > Len(log)
              /\ SubSeq(log', 1, Len(log)) = log
              /\ log'[Len(log) + 1].op = "get"
              /\ log'[Len(log) + 1].target = "login_page"
              /\ exc' = "none" =>
                    /\ is_logged_in'
                    /\ log' = log \o issued(login_calls, 0, 0)
      ]_vars

\* The first call timed out waiting for the submit control (its sixth
\* call); the second ran all seven calls and logged in.
C4_Witness ==
    /\ logins = 2
    /\ is_logged_in
    /\ Len(log) = 6 + Len(login_calls)
    /\ log[6].op = "wait" /\ log[6].target = "login_submit" /\ ~log[6].ok

\* C5: a failed login aborts the batch - when main()'s login() call has
\* raised, the run is over and no call of any record's workflow was or is
\* issued.
C5_FailedLoginAborts ==
    (logins = 1 /\ ~is_logged_in) =>
        /\ pc = "aborted"
        /\ idx = 0
        /\ \A k \in DOMAIN log : log[k].rec = 0

\* The login of a batch of two cards raised.
C5_Witness ==
    /\ logins = 1
    /\ ~is_logged_in
    /\ exc # "none"
    /\ Len(cards) = 2

SubmitClicks ==
    { k \in DOMAIN log : log[k].op = "click" /\ log[k].target = "login_submit" }

\* C6: one session per batch - never more than one browser session, and
\* exactly one whenever a browser call is issued; the login form is
\* submitted at most once, exactly once in a run that gets to or through
\* the records, and before every call of every record's workflow; and
\* every record's workflow runs with the instance's image path, title and
\* fields replaced by that record's.
C6_OneSession ==
    /\ drivers <= 1
    /\ log # << >> => drivers = 1
    /\ Cardinality(SubmitClicks) <= 1
    /\ (pc \notin {"main", "login", "aborted"} /\ cards # << >>)
          => Cardinality(SubmitClicks) = 1
    /\ \A q \in DOMAIN log :
          log[q].rec >= 1 =>
              /\ \E p \in SubmitClicks : p < q /\ log[p].ok
              /\ Did(q, "send_keys", "file_input")
                    => log[q].text = cards[log[q].rec].image_path
              /\ Did(q, "send_keys", "title")
                    => log[q].text = cards[log[q].rec].card_title
              /\ Did(q, "send_keys", "description")
                    => log[q].text =
                          combined_text(cards[log[q].rec].other_text_fields)
    /\ pc \in {"navigate", "upload", "finalize", "enter", "preview"} =>
          /\ image_path = cards[idx].image_path
          /\ card_title = cards[idx].card_title
          /\ other_text_fields = cards[idx].other_text_fields

\* Two different cards were published in one run.
C6_Witness ==
    /\ pc = "done"
    /\ Len(cards) = 2
    /\ cards[1] # cards[2]
    /\ Published(1) /\ Published(2)

\* The positions of the calls issued for record r.
CallsOf(r) == { k \in DOMAIN log : log[k].rec = r }

\* C7: no automatic retry - the records are run in order, each at most
\* once (a call is never followed by a call of an earlier record), and
\* within one record no call is issued twice: not the navigation, the file
\* injection, the confirm, Next, Preview or Publish click, nor any field
\* fill - the calls of a record are as many as the different calls among
\* them.
C7_NoRetry ==
    /\ \A q \in 2..Len(log) : log[q - 1].rec <= log[q].rec
    /\ \A r \in 1..Len(cards) :
          Cardinality({ <<log[k].op, log[k].target, log[k].text>> :
                            k \in CallsOf(r) })
              = Cardinality(CallsOf(r))

\* The first record was published and the second one failed.
C7_Witness ==
    /\ pc = "aborted"
    /\ idx = 2
    /\ Published(1)
    /\ ~Published(2)

\* str.split('\n'): the lines of a text.
RECURSIVE SplitNL(_)
SplitNL(t) ==
    LET k == find(t, NL)
    IN  IF k = -1 THEN << t >>
        ELSE << SubSeq(t, 1, k) >> \o SplitNL(SubSeq(t, k + 2, Len(t)))

RECURSIVE rfind_from(_, _, _)
rfind_from(s, c, k) ==
    IF k < 1 THEN -1
    ELSE IF s[k] = c THEN k - 1
    ELSE rfind_from(s, c, k - 1)

\* The lines of a slice split at its rightmost space.
RightmostSplit(chunk) ==
    LET split_index == rfind_from(chunk, SP, Len(chunk))
    IN  IF split_index # -1
        THEN << SubSeq(chunk, 1, split_index),
                SubSeq(chunk, split_index + 2, Len(chunk)) >>
        ELSE << chunk >>

RECURSIVE RightmostLines(_)
RightmostLines(cs) ==
    IF cs = << >> THEN << >>
    ELSE RightmostSplit(Head(cs)) \o RightmostLines(Tail(cs))

IsAbilityKey(key) == \E k \in DOMAIN AbilityKeys : AbilityKeys[k] = key

TextKeys == { AbilityKeys[k] : k \in DOMAIN AbilityKeys } \cup {"oracle", "flavor"}

\* The text keys of the instance's fields that hold a non-empty text.
PresentKeys == { key \in TextKeys : present(other_text_fields, key) }

WidthOf(key) == IF IsAbilityKey(key) THEN AbilityWidth ELSE PlainWidth

\* The lines the wrap makes of the text filed under key.
LinesOf(key) ==
    IF IsAbilityKey(key) THEN ability_lines(other_text_fields[key])
    ELSE plain_lines(other_text_fields[key])

\* The positions of the description fills that returned.
SentDescriptions == { k \in DOMAIN log : Did(k, "send_keys", "description") }

\* C8: the wrap breaks at the rightmost space - the description written
\* for an ability text is that text cut into 45-character slices, each
\* slice with a space split in two at its LAST space.
C8_RightmostSpace ==
    \A k \in SentDescriptions :
        \A key \in PresentKeys :
            (IsAbilityKey(key) /\ PresentKeys = {key}) =>
                log[k].text =
                    join(<<NL>>, RightmostLines(
                        chunks(other_text_fields[key], AbilityWidth)))

\* C9: line-width bound - every line the wrap makes of an ability text is
\* at most 45 characters long and every line it makes of oracle or flavor
\* text at most 40, and so are the lines of the description written.
C9_LineWidth ==
    /\ \A key \in PresentKeys :
          \A i \in DOMAIN LinesOf(key) : Len(LinesOf(key)[i]) <= WidthOf(key)
    /\ \A k \in SentDescriptions :
          LET lines == SplitNL(log[k].text)
              width == IF \E key \in PresentKeys : IsAbilityKey(key)
                       THEN AbilityWidth ELSE PlainWidth
          IN  \A i \in DOMAIN lines : Len(lines[i]) <= width

\* A description was written for an ability text longer than a slice, and
\* one of its lines is a full 45 characters long.
C9_Witness ==
    /\ pc = "preview"
    /\ SentDescriptions # {}
    /\ \E key \in PresentKeys :
          /\ IsAbilityKey(key)
          /\ Len(other_text_fields[key]) > AbilityWidth
          /\ \E i \in DOMAIN LinesOf(key) : Len(LinesOf(key)[i]) = AbilityWidth

\* The original statement of C10: joining the lines of any text the
\* description was written for with single spaces gives the text back.
C10_RoundTrip ==
    SentDescriptions # {} =>
        \A key \in PresentKeys :
            join(<<SP>>, LinesOf(key)) = other_text_fields[key]

NonSpace(t) == SelectSeq(t, LAMBDA c : c # SP)

\* The number of w-character slices of t that hold a space.
SlicesWithSpace(t, w) ==
    Cardinality({ n \in 0..((Len(t) - 1) \div w) :
        \E i \in (n * w + 1)..Min((n + 1) * w, Len(t)) : t[i] = SP })

\* C10 (amended): joining the lines with single spaces gives the text back
\* when the text is no longer than one slice.  In any text the lines,
\* put end to end, are the text less one space for each ability slice that
\* holds a space (none for oracle and flavor text): no other character is
\* dropped.  The description written for a single ability or oracle text
\* is these lines, one per line.
C10_RoundTripWithinSlice ==
    /\ \A key \in PresentKeys :
          LET t == other_text_fields[key]
              lines == LinesOf(key)
          IN  /\ Len(t) <= WidthOf(key) => join(<<SP>>, lines) = t
              /\ NonSpace(flatten(lines)) = NonSpace(t)
              /\ Len(flatten(lines)) =
                    Len(t) - (IF IsAbilityKey(key)
                              THEN SlicesWithSpace(t, AbilityWidth) ELSE 0)
    /\ \A k \in SentDescriptions :
          \A key \in PresentKeys :
              (PresentKeys = {key} /\ key # "flavor") =>
                  SplitNL(log[k].text) = LinesOf(key)

\* A description was written for an ability text with a space that is
\* longer than one slice.
C10_Witness ==
    /\ pc = "preview"
    /\ SentDescriptions # {}
    /\ \E key \in PresentKeys :
          /\ IsAbilityKey(key)
          /\ Len(other_text_fields[key]) > AbilityWidth
          /\ SlicesWithSpace(other_text_fields[key], AbilityWidth) >= 1

\* The lines the wrap used for key makes of the text t.
WrapOf(key, t) == IF IsAbilityKey(key) THEN ability_lines(t) ELSE plain_lines(t)

\* The original statement of C11: for any text the description was written
\* for, wrapping the lines joined with single spaces gives the same lines.
C11_Idempotent ==
    SentDescriptions # {} =>
        \A key \in PresentKeys :
            WrapOf(key, join(<<SP>>, LinesOf(key))) = LinesOf(key)

\* C11 (amended): wrap idempotence within one slice - for every text no
\* longer than the width, wrapping it, joining the lines with single spaces
\* and wrapping the joined text again gives the same lines as the first wrap.
C11_IdempotentWithinSlice ==
    \A key \in PresentKeys :
        LET t == other_text_fields[key]
        IN  Len(t) <= WidthOf(key) =>
                WrapOf(key, join(<<SP>>, LinesOf(key))) = LinesOf(key)

\* A description was written for an ability text that fills one slice
\* exactly and was split in two lines.
C11_Witness ==
    /\ pc = "preview"
    /\ SentDescriptions # {}
    /\ \E key \in PresentKeys :
          /\ IsAbilityKey(key)
          /\ Len(other_text_fields[key]) = AbilityWidth
          /\ Len(LinesOf(key)) = 2

\* Every letter of t is the one distinct_letters gives its position.
LettersDistinct(t) == t = distinct_letters(t)

\* Every maximal run of non-space characters of t is at most w long.
WordsWithin(t, w) ==
    \A p \in 1..(Len(t) - w) : \E q \in p..(p + w) : t[q] = SP

\* The positions p of t at which a word is divided: the characters at p and
\* p + 1 are neighbours in a word and end up in different lines.  The
\* lines keep the letters of t in order (C10), so this is where one
\* non-empty line ends with letter p and the next starts with letter p + 1.
DividedAt(t, lines) ==
    LET filled == SelectSeq(lines, LAMBDA l : l # << >>)
    IN  { p \in 1..(Len(t) - 1) :
            \E i \in 1..(Len(filled) - 1) :
                /\ filled[i][Len(filled[i])] = ToString(p)
                /\ filled[i + 1][1] = ToString(p + 1) }

\* The original statement of C12: no word of a text whose words are each
\* no longer than the width is divided across two lines.
C12_NoWordSplit ==
    SentDescriptions # {} =>
        \A key \in PresentKeys :
            LET t == other_text_fields[key]
            IN  (LettersDistinct(t) /\ WordsWithin(t, WidthOf(key))) =>
                    DividedAt(t, LinesOf(key)) = {}

\* C12 (amended): a word is divided across two lines exactly where it runs
\* across a slice boundary - where the characters at positions k * w and
\* k * w + 1 of the text are both non-space - so no word of a text no longer
\* than the width is divided.
C12_SplitAtSliceBoundary ==
    SentDescriptions # {} =>
        \A key \in PresentKeys :
            LET t == other_text_fields[key]
                w == WidthOf(key)
            IN  LettersDistinct(t) =>
                    /\ DividedAt(t, LinesOf(key)) =
                          { p \in 1..(Len(t) - 1) :
                              p % w = 0 /\ t[p] # SP /\ t[p + 1] # SP }
                    /\ Len(t) <= w => DividedAt(t, LinesOf(key)) = {}

\* A description was written for a text whose words are each no longer
\* than the width, and one of them was divided.
C12_Witness ==
    /\ pc = "preview"
    /\ SentDescriptions # {}
    /\ \E key \in PresentKeys :
          /\ LettersDistinct(other_text_fields[key])
          /\ WordsWithin(other_text_fields[key], WidthOf(key))
          /\ DividedAt(other_text_fields[key], LinesOf(key)) # {}

\* The instance was constructed with the worked example as its only text.
ExampleEntered ==
    /\ other_text_fields = [k \in {"static_abilities"} |-> ExampleText]
    /\ SentDescriptions # {}

KeysBeforeFlavor ==
    << "static_abilities", "triggered_abilities_1", "triggered_abilities_2",
       "triggered_abilities_3", "triggered_abilities_4", "oracle" >>

\* The wrapped blocks of those of the keys that hold a non-empty text, in
\* the order of keys.
BlocksOf(keys) ==
    LET filled == SelectSeq(keys, LAMBDA key : key \in PresentKeys)
    IN  [i \in DOMAIN filled |-> join(<<NL>>, LinesOf(filled[i]))]

\* n line breaks.
Breaks(n) == [i \in 1..n |-> NL]

\* C14: combined block composition - the description written is the wrapped
\* blocks of exactly the keys that hold a non-empty text, in the fixed order
\* static, triggered 1-4, oracle, flavor, joined by line breaks; an absent
\* or empty key adds nothing, and only line breaks stand between the flavor
\* block and what precedes it.
C14_BlockComposition ==
    \A k \in SentDescriptions :
        LET before == join(<<NL>>, BlocksOf(KeysBeforeFlavor))
        IN  IF "flavor" \in PresentKeys
            THEN \E n \in 1..3 :
                    log[k].text =
                        before \o Breaks(n) \o join(<<NL>>, LinesOf("flavor"))
            ELSE log[k].text = before

\* A description was written for a mapping with an ability text, oracle
\* text and flavor text, an empty key and an absent key.
C14_Witness ==
    /\ pc = "preview"
    /\ SentDescriptions # {}
    /\ {"triggered_abilities_2", "oracle", "flavor"} \subseteq PresentKeys
    /\ "static_abilities" \in DOMAIN other_text_fields
    /\ other_text_fields["static_abilities"] = << >>
    /\ "triggered_abilities_1" \notin DOMAIN other_text_fields

\* C15: flavor separator - in the description written, the first line of a
\* non-empty flavor text is preceded by exactly one empty line, and without
\* flavor text the description has no empty line at all.
C15_FlavorSeparator ==
    \A k \in SentDescriptions :
        LET lines == SplitNL(log[k].text)
            first == Len(lines) - Len(LinesOf("flavor")) + 1
        IN  IF "flavor" \in PresentKeys
            THEN /\ first >= 2
                 /\ lines[first - 1] = << >>
                 /\ first >= 3 => lines[first - 2] # << >>
            ELSE log[k].text # << >> =>
                    \A i \in DOMAIN lines : lines[i] # << >>

\* The description at log position k, written for the single key that
\* holds a text, less the line breaks put before flavor text.
BlockWritten(k) ==
    LET text == log[k].text
        first == CHOOSE i \in 1..(Len(text) + 1) :
                    /\ \A j \in 1..(i - 1) : text[j] = NL
                    /\ i <= Len(text) => text[i] # NL
    IN  IF "flavor" \in PresentKeys
        THEN SubSeq(text, first, Len(text))
        ELSE text

\* Exactly one key holds a text, and it is oracle or flavor.
PlainKeyAlone ==
    \E key \in {"oracle", "flavor"} : PresentKeys = {key}

TextInputs ==
    {"username", "password", "title", "mana", "type_search", "description"}

\* C17: text entry always clears first - every send_keys to a text input
\* is immediately preceded by a clear of that same input that returned,
\* issued for the same record.
C17_ClearBeforeTyping ==
    \A k \in DOMAIN log :
        (log[k].op = "send_keys" /\ log[k].target \in TextInputs) =>
            /\ k > 1
            /\ log[k - 1].op = "clear"
            /\ log[k - 1].target = log[k].target
            /\ log[k - 1].rec = log[k].rec
            /\ log[k - 1].ok

\* The workflow's buttons.
Buttons == {"login_submit", "confirm", "next", "preview", "publish"}

\* C18: click-interception fallback - a click on one of the workflow's
\* buttons that is intercepted is followed at once by the script click
\* robust_click falls back on, and no click-intercepted error leaves a
\* workflow step.
C18_InterceptedClickFallsBack ==
    /\ exc # "ElementClickInterceptedException"
    /\ \A k \in DOMAIN log :
          (log[k].op = "click" /\ log[k].target \in Buttons /\ ~log[k].ok) =>
              LET fallback == robust_click(log[k].target, TRUE)
              IN  /\ k + 1 \in DOMAIN log
                  /\ log[k + 1] =
                        [fallback[Len(fallback)] EXCEPT !.rec = log[k].rec]

\* The position k of log holds a wait for the file input that failed.
FileInputMissing(k) ==
    /\ log[k].op = "wait"
    /\ log[k].target = "file_input"
    /\ ~log[k].ok

\* C19: navigation tolerance - the timeout of the wait for the file input
\* never leaves the navigate step: a failed wait is followed by exactly one
\* window.stop() call unless it failed for another reason than the timeout,
\* and when that call returns no exception is raised and the workflow goes
\* on with the upload step, which starts by looking up the file input.
C19_NavigationTolerance ==
    /\ exc # "TimeoutException" \/ log[Len(log)].target # "file_input"
    /\ \A k \in DOMAIN log :
          FileInputMissing(k) =>
              \/ /\ k = Len(log)
                 /\ pc = "aborted"
                 /\ exc \notin {"none", "TimeoutException"}
              \/ /\ k + 1 \in DOMAIN log
                 /\ log[k + 1].op = "script"
                 /\ log[k + 1].target = "window.stop"
                 /\ log[k + 1].rec = log[k].rec
                 /\ IF log[k + 1].ok
                    THEN /\ k + 1 = Len(log) => (pc = "upload" /\ exc = "none")
                         /\ k + 2 \in DOMAIN log =>
                               /\ log[k + 2].op = "find"
                               /\ log[k + 2].target = "file_input"
                               /\ log[k + 2].rec = log[k].rec
                    ELSE /\ k + 1 = Len(log)
                         /\ pc = "aborted"
                         /\ exc # "TimeoutException"

\* The wait for the file input timed out, window.stop() was issued, and the
\* upload step's lookup of the file input then failed the record.
C19_Witness ==
    \E k \in DOMAIN log :
        /\ FileInputMissing(k)
        /\ k + 2 = Len(log)
        /\ log[k + 1].target = "window.stop"
        /\ log[k + 1].ok
        /\ log[k + 2].op = "find"
        /\ log[k + 2].target = "file_input"
        /\ ~log[k + 2].ok
        /\ pc = "aborted"

\* The elements of the two dropdowns.
DropdownTargets ==
    {"rarity", "select2-chosen-2", "s2id_autogen1", "type_search"}

\* C20: dropdown-selection failures are non-fatal - a failed call on an
\* element of the rarity or the card type dropdown raises nothing out of the
\* metadata step: the workflow is then at the preview step, not aborted.
C20_DropdownFailureNonFatal ==
    \A k \in DOMAIN log :
        (log[k].target \in DropdownTargets /\ ~log[k].ok /\ k = Len(log)) =>
            /\ pc = "preview"
            /\ exc = "none"

\* The rows of the sheet that generate_and_upload_images reads.
RowsRead == SubSeq(values, 316, Min(375, Len(values)))

\* A call made for the i-th row read raised.
RowFailed(i) ==
    \E k \in DOMAIN log : log[k].rec = 315 + i /\ ~log[k].ok

\* The i-th row read has been processed and is to have a record: it has at
\* least 10 columns and a prompt, every column up to index 20, and no call
\* made for it raised.
RowYields(i) ==
    /\ i <= rows_done
    /\ Len(RowsRead[i]) >= 10
    /\ RowsRead[i][3] # << >>
    /\ Len(RowsRead[i]) >= 21
    /\ ~RowFailed(i)

\* The twelve keys of a record's fields.
TwelveKeys ==
    {"card_type", "subtype", "mana_value", "power", "toughness",
     "static_abilities", "triggered_abilities_1", "triggered_abilities_2",
     "triggered_abilities_3", "triggered_abilities_4", "rarity", "flavor"}

\* The numbers of the rows read that are to have a record, in row order.
YieldingRows ==
    SelectSeq([i \in 1..Len(RowsRead) |-> i], LAMBDA i : RowYields(i))

\* C21: row ingestion isolates per-row failures - the records collected
\* are, in row order, one for each row processed that has at least 10
\* columns, a prompt and every column up to index 20 and for which no call
\* raised, and none for any other row; no call is made for a row with
\* fewer than 10 columns or without a prompt; an exception in a row leaves
\* the loop running, which ends only after the last row; every record has
\* exactly the twelve field keys, so no oracle key.
C21_RowIsolation ==
    /\ Len(cards) = Len(YieldingRows)
    /\ \A n \in DOMAIN cards :
          /\ cards[n].card_title = RowsRead[YieldingRows[n]][2]
          /\ DOMAIN cards[n].other_text_fields = TwelveKeys
          /\ "oracle" \notin DOMAIN cards[n].other_text_fields
    /\ \A k \in DOMAIN log :
          LET i == log[k].rec - 315
          IN  /\ i \in 1..Len(RowsRead)
              /\ Len(RowsRead[i]) >= 10
              /\ RowsRead[i][3] # << >>
    /\ pc = "ingested" => rows_done = Len(RowsRead)
    /\ pc = "aborted" => (values = << >> /\ log = << >>)
    /\ pc \in {"ingest", "ingested"} => exc = "none"

\* The function returned after a call for the first row read raised and
\* the second row gave the one record.
C21_Witness ==
    /\ pc = "ingested"
    /\ Len(RowsRead) = 2
    /\ Len(RowsRead[1]) >= 10
    /\ RowsRead[1][3] # << >>
    /\ RowFailed(1)
    /\ RowYields(2)
    /\ Len(cards) = 1

====
